---- MODULE Spec2Model ----
(***************************************************************************)
(* Model of the video scene detector backend (backend/app): the session    *)
(* store of VideoProcessor, the boundary post-filter, the classifier, the  *)
(* segment planner/extractor, the report writer and the HTTP handlers      *)
(* that drive them.                                                        *)
(*                                                                         *)
(* Time is counted in ticks of one frame; the modelled video runs at FPS   *)
(* frames per second, so a timestamp in ticks equals the frame number that *)
(* FrameTimecode reports for it, 1.0s is FPS ticks and 0.1s is FPS \div 10 *)
(* ticks.  Confidences are counted in tenths (7 is 0.7).                   *)
(***************************************************************************)
EXTENDS Integers, Sequences, FiniteSets, TLC

VARIABLES sessions, download, last, input

vars == <<sessions, download, last, input>>

(***************************************************************************)
(* Bounds of the model.                                                    *)
(***************************************************************************)
MaxTime == 3
MaxScenes == 3
MaxCuts == 3
LcMaxCuts == 2
LcMaxPlan == 1

(***************************************************************************)
(* Units and program constants.                                            *)
(***************************************************************************)
FPS == 20

Seconds(n) == n * FPS

\* the literal 0.1 of "if end_time - start_time < 0.1"
ShortSegment == FPS \div 10

\* the literal 1.0 written into the report's settings
ReportedMinSegmentDuration == Seconds(1)

content_detector_threshold_min == 3
content_detector_threshold_max == 27

Max(a, b) == IF a >= b THEN a ELSE b
Min(a, b) == IF a <= b THEN a ELSE b

Last(s) == s[Len(s)]

(***************************************************************************)
(* Data model (models/video.py).                                           *)
(***************************************************************************)
NoSession == [status |-> "absent"]

\* description is "Scene {i+1} detected at ...": the model keeps the scene
\* number; 0 stands for a description that names no scene.
CutPoint(frame_number, timestamp, confidence, change_type, description) ==
    [frame_number |-> frame_number, timestamp |-> timestamp,
     confidence |-> confidence, change_type |-> change_type,
     description |-> description]

\* duration = frame_count / fps seconds, in ticks of 1/FPS s
VideoInfo(frame_count, fps) ==
    [duration |-> IF fps > 0 THEN (frame_count * FPS) \div fps ELSE 0,
     frame_rate |-> fps, total_frames |-> frame_count]

VideoSession(session_id, video_path, video_info) ==
    [session_id |-> session_id, video_path |-> video_path,
     video_info |-> video_info, cut_points |-> <<>>, status |-> "uploaded"]

(***************************************************************************)
(* Threshold derivation (_detect_scenes_pyscenedetect).  sensitivity is    *)
(* given in hundredths; int() truncates toward zero.                       *)
(***************************************************************************)
RoundDiv(a, b) == (2 * a + b) \div (2 * b)

TruncDiv(a, b) == IF a >= 0 THEN a \div b ELSE -((-a) \div b)

ThresholdUnclamped(sensitivity) ==
    LET threshold_range == content_detector_threshold_max - content_detector_threshold_min
    IN  TruncDiv(content_detector_threshold_max * 100 - sensitivity * threshold_range, 100)

Threshold(sensitivity) ==
    LET threshold_range == content_detector_threshold_max - content_detector_threshold_min
        threshold == TruncDiv(content_detector_threshold_max * 100 - sensitivity * threshold_range, 100)
    IN  Max(content_detector_threshold_min, Min(content_detector_threshold_max, threshold))

(***************************************************************************)
(* Classifier (_classify_change) on the variance signature of a frame:     *)
(* NoVariances when no grid cell has a pixel, else max_variance and        *)
(* variance_std of the cell variances.                                     *)
(***************************************************************************)
NoVariances == [empty |-> TRUE, max_variance |-> 0, variance_std |-> 0]

Variances(max_variance, variance_std) ==
    [empty |-> FALSE, max_variance |-> max_variance, variance_std |-> variance_std]

Classified(change_type, confidence) ==
    [change_type |-> change_type, confidence |-> confidence]

\* the condition written on rule r of the chain, r = 1 (button_click),
\* 2 (dialog_open), 3 (ui_update), 4 (form_input)
RuleConditionLoose(r, v) ==
    CASE r = 1 -> v.max_variance < 1000
      [] r = 2 -> v.max_variance < 5000
      [] r = 3 -> v.max_variance > 10000
      [] r = 4 -> v.variance_std > 2000

RuleCondition(r, v) ==
    CASE r = 1 -> v.max_variance < 1000
      [] r = 2 -> v.max_variance < 5000 /\ v.variance_std < 1000
      [] r = 3 -> v.max_variance > 10000
      [] r = 4 -> v.variance_std > 2000

ClassifyChangeSpreadFirst(v) ==
    IF v.empty THEN Classified("unknown", 5)
    ELSE IF v.max_variance < 1000 THEN Classified("button_click", 7)
    ELSE IF v.max_variance < 5000 /\ v.variance_std < 1000 THEN Classified("dialog_open", 8)
    ELSE IF v.variance_std > 2000 THEN Classified("form_input", 6)
    ELSE IF v.max_variance > 10000 THEN Classified("ui_update", 9)
    ELSE Classified("general_change", 5)

ClassifyChange(v) ==
    IF v.empty THEN Classified("unknown", 5)
    ELSE IF v.max_variance < 1000 THEN Classified("button_click", 7)
    ELSE IF v.max_variance < 5000 /\ v.variance_std < 1000 THEN Classified("dialog_open", 8)
    ELSE IF v.max_variance > 10000 THEN Classified("ui_update", 9)
    ELSE IF v.variance_std > 2000 THEN Classified("form_input", 6)
    ELSE Classified("general_change", 5)

(***************************************************************************)
(* What cap.read() gives for a scene's first frame: ret, and the variance  *)
(* signature of the frame as read and after _mask_cursor_region.           *)
(***************************************************************************)
FrameRead(ret, raw, masked) == [ret |-> ret, raw |-> raw, masked |-> masked]

FrameReads ==
    { FrameRead(FALSE, NoVariances, NoVariances),
      FrameRead(TRUE, Variances(12000, 3000), Variances(500, 100)),
      FrameRead(TRUE, Variances(3000, 500), Variances(3000, 500)) }

\* a scene of the scene list: scene[0].get_frames() and scene[0].get_seconds()
Scene(f) == [frames |-> f, seconds |-> f]

(***************************************************************************)
(* Boundary post-filter (_process_scenes_with_cursor_masking).  scene_list *)
(* is what SceneManager.get_scene_list() returned, frames[i] what          *)
(* cap.read() gives at the start frame of scene i.  Python's i is 0-based, *)
(* so its "i > 0" is "i > 1" here and "Scene {i+1}" is scene i.            *)
(***************************************************************************)
SceneDurationFromStart(start_time, cut_points) == start_time

SceneDuration(start_time, cut_points) ==
    IF cut_points # <<>> THEN start_time - Last(cut_points).timestamp ELSE start_time

TooShortOrEqual(i, start_time, cut_points, min_segment_duration) ==
    i > 1 /\ SceneDuration(start_time, cut_points) <= min_segment_duration

TooShort(i, start_time, cut_points, min_segment_duration) ==
    i > 1 /\ SceneDuration(start_time, cut_points) < min_segment_duration

RECURSIVE ProcessScenesFrom(_, _, _, _, _, _)
ProcessScenesFrom(i, scene_list, frames, ignore_cursor, min_segment_duration, cut_points) ==
    IF i > Len(scene_list) THEN cut_points
    ELSE LET start_frame == scene_list[i].frames
             start_time == scene_list[i].seconds
             frame == IF ignore_cursor THEN frames[i].masked ELSE frames[i].raw
             c == ClassifyChange(frame)
             cut_point == CutPoint(start_frame, start_time, c.confidence, c.change_type, i)
         IN  IF TooShort(i, start_time, cut_points, min_segment_duration) \/ ~frames[i].ret
             THEN ProcessScenesFrom(i + 1, scene_list, frames, ignore_cursor,
                                    min_segment_duration, cut_points)
             ELSE ProcessScenesFrom(i + 1, scene_list, frames, ignore_cursor,
                                    min_segment_duration, Append(cut_points, cut_point))

ProcessScenes(scene_list, frames, ignore_cursor, min_segment_duration) ==
    ProcessScenesFrom(1, scene_list, frames, ignore_cursor, min_segment_duration, <<>>)

(***************************************************************************)
(* Segment planner and extractor (_create_segments).  ffmpeg_available is  *)
(* whether shutil.which or the known path finds the tool, failing the set  *)
(* of loop positions whose subprocess.run raises CalledProcessError.       *)
(* Python's i is 0-based: position i here names segment_{i:03d}.           *)
(***************************************************************************)
SegmentFile(i) == <<"segment", i, "mp4">>
SegmentErrorFile(i) == <<"segment", i, "error.txt">>
NoteFile == <<"ffmpeg_not_available", 0, "txt">>
LogFile == <<"processing_log", 0, "json">>

IsSegmentFile(f) == f[1] = "segment" /\ f[3] = "mp4"

SegmentEntry(filename, start_time, end_time, extra) ==
    [filename |-> filename, start_time |-> start_time, end_time |-> end_time,
     duration |-> end_time - start_time, extra |-> extra]

\* "{cp.timestamp:.2f}": the timestamp in hundredths of a second
Format2f(timestamp) ==
    LET scaled == 2 * timestamp * 100 + (IF timestamp >= 0 THEN FPS ELSE -FPS)
    IN  TruncDiv(scaled, 2 * FPS)

NoteLinesFirstOnly(cut_points) ==
    [i \in 1..Min(1, Len(cut_points)) |->
        <<i, Format2f(cut_points[i].timestamp), cut_points[i].frame_number>>]

NoteLines(cut_points) ==
    [i \in 1..Len(cut_points) |->
        <<i, Format2f(cut_points[i].timestamp), cut_points[i].frame_number>>]

DegradedMode(cut_points) ==
    [segments |-> <<SegmentEntry(NoteFile, 0, 0, "note")>>,
     written |-> NoteFile :> NoteLines(cut_points)]

AllPointsNoStart(cut_points) ==
    [i \in 1..Len(cut_points) |-> cut_points[i].timestamp]

AllPoints(cut_points) ==
    <<0>> \o [i \in 1..Len(cut_points) |-> cut_points[i].timestamp]

OnExtractErrorDropped(segments, i, start_time, end_time) == segments

OnExtractError(segments, i, start_time, end_time) ==
    Append(segments, SegmentEntry(SegmentErrorFile(i), start_time, end_time, "error"))

\* 'if duration < 0.1: continue'
SkippedWhenShortEitherWay(start_time, end_time) ==
    /\ end_time - start_time < ShortSegment
    /\ start_time - end_time < ShortSegment

Skipped(start_time, end_time) == end_time - start_time < ShortSegment

\* the number in a segment's file name: i + 1 of enumerate(), here i of 1..n
SegmentIndexRenumbered(i, segments) == Len(segments) + 1

SegmentIndex(i, segments) == i

RECURSIVE ExtractFrom(_, _, _, _, _)
ExtractFrom(i, all_points, video_path, failing, out) ==
    IF i > Len(all_points) - 1 THEN out
    ELSE LET start_time == all_points[i]
             end_time == all_points[i + 1]
         IN  IF Skipped(start_time, end_time)
             THEN ExtractFrom(i + 1, all_points, video_path, failing, out)
             ELSE IF i \notin failing
             THEN ExtractFrom(i + 1, all_points, video_path, failing,
                    [segments |-> Append(out.segments,
                                    SegmentEntry(SegmentFile(SegmentIndex(i, out.segments)),
                                                 start_time, end_time, "none")),
                     written |-> (SegmentFile(SegmentIndex(i, out.segments)) :>
                                    [input |-> video_path, ss |-> start_time,
                                     t |-> end_time - start_time]) @@ out.written])
             ELSE ExtractFrom(i + 1, all_points, video_path, failing,
                    [segments |-> OnExtractError(out.segments, i, start_time, end_time),
                     written |-> out.written])

NothingWritten == [f \in {} |-> 0]

CreateSegments(video_path, cut_points, ffmpeg_available, failing) ==
    IF ~ffmpeg_available THEN DegradedMode(cut_points)
    ELSE ExtractFrom(1, AllPoints(cut_points), video_path, failing,
                     [segments |-> <<>>, written |-> NothingWritten])

(***************************************************************************)
(* Report writer (_create_log_file).                                       *)
(***************************************************************************)
CreateLogFile(session, cut_points, segments) ==
    [session_id |-> session.session_id, video_info |-> session.video_info,
     cut_points |-> cut_points, segments |-> segments,
     settings |-> [cursor_masking |-> TRUE,
                   min_segment_duration |-> ReportedMinSegmentDuration]]

(***************************************************************************)
(* Session store (VideoProcessor.sessions) and the service methods' writes *)
(* to a session.                                                           *)
(***************************************************************************)
GetSession(session_id) ==
    IF session_id \in DOMAIN sessions THEN sessions[session_id] ELSE NoSession

DetectUpdateMerged(session, cut_points) ==
    [session EXCEPT !.cut_points = session.cut_points \o cut_points, !.status = "analyzed"]

DetectUpdate(session, cut_points) ==
    [session EXCEPT !.cut_points = cut_points, !.status = "analyzed"]

\* the session when _detect_scenes_pyscenedetect raises: the exception
\* leaves detect_changes before the two assignments
DetectRaisedCleared(session) ==
    [session EXCEPT !.cut_points = <<>>]

DetectRaised(session) == session

AdjustUpdateAnalyzed(session, adjusted_cuts) ==
    [session EXCEPT !.cut_points = adjusted_cuts, !.status = "analyzed"]

AdjustUpdate(session, adjusted_cuts) ==
    [session EXCEPT !.cut_points = adjusted_cuts]

ProcessUpdate(session, cut_points) ==
    [session EXCEPT !.status = "processed"]

\* class ChangeType
ChangeTypes ==
    {"button_click", "dialog_open", "ui_update", "form_input", "general_change", "unknown"}

\* CutPoint(**cp): keys beyond the model's fields are ignored, a missing
\* required key raises a validation error
CutPointKeys == {"frame_number", "timestamp", "confidence", "change_type", "description"}

ValidDict(cp) == CutPointKeys \subseteq DOMAIN cp

CutPointFromDict(cp) == [k \in CutPointKeys |-> cp[k]]

(***************************************************************************)
(* Handlers (api/routes.py) with the service methods they call.  last is   *)
(* the request just served and what was returned for it.                   *)
(***************************************************************************)
NoInput == [pending |-> FALSE]

Failure(op, session_id, status_code) ==
    [op |-> op, ok |-> FALSE, session_id |-> session_id, status_code |-> status_code]

\* POST /upload -> create_session; session_id is the fresh uuid4, accepted
\* whether the file passes the extension and size checks, opened whether
\* cv2.VideoCapture opens it
UploadVideo(session_id, video_path, accepted, opened, frame_count, fps) ==
    /\ session_id \notin DOMAIN sessions
    /\ IF ~accepted
       THEN /\ last' = Failure("upload_video", session_id, 400)
            /\ UNCHANGED sessions
       ELSE IF ~opened
       THEN /\ last' = Failure("upload_video", session_id, 500)
            /\ UNCHANGED sessions
       ELSE /\ sessions' = (session_id :> VideoSession(session_id, video_path,
                                               VideoInfo(frame_count, fps))) @@ sessions
            /\ last' = [op |-> "upload_video", ok |-> TRUE, session_id |-> session_id]
    /\ UNCHANGED download

\* A request's sensitivity is a float: sensitivity.hundredths when finite;
\* the JSON body may also carry NaN, Infinity and -Infinity.
Finite(hundredths) == [kind |-> "finite", hundredths |-> hundredths]
NonFinite(kind) == [kind |-> kind, hundredths |-> 0]

\* int(...) of the threshold expression: ValueError for NaN, which the
\* handler answers 404, OverflowError for an infinity, answered 500, and 0
\* when the conversion returns
ThresholdError(sensitivity) ==
    IF sensitivity.kind = "nan" THEN 404
    ELSE IF sensitivity.kind \in {"inf", "-inf"} THEN 500
    ELSE 0

\* POST /analyze -> detect_changes
AnalyzeVideo(session_id, sensitivity, ignore_cursor, min_segment_duration, detection) ==
    /\ IF GetSession(session_id) = NoSession
       THEN /\ last' = Failure("analyze_video", session_id, 404)
            /\ UNCHANGED sessions
       ELSE IF ThresholdError(sensitivity) # 0
       THEN /\ last' = Failure("analyze_video", session_id, ThresholdError(sensitivity))
            /\ UNCHANGED sessions
       ELSE IF detection.raises
       THEN /\ last' = Failure("analyze_video", session_id, 500)
            /\ sessions' = [sessions EXCEPT ![session_id] = DetectRaised(@)]
       ELSE LET cut_points == ProcessScenes(detection.scene_list, detection.frames,
                                            ignore_cursor, min_segment_duration)
            IN  /\ sessions' = [sessions EXCEPT ![session_id] = DetectUpdate(@, cut_points)]
                /\ last' = [op |-> "analyze_video", ok |-> TRUE, session_id |-> session_id,
                            sensitivity |-> sensitivity.hundredths,
                            threshold |-> Threshold(sensitivity.hundredths),
                            ignore_cursor |-> ignore_cursor,
                            min_segment_duration |-> min_segment_duration,
                            scene_list |-> detection.scene_list,
                            frames |-> detection.frames,
                            cut_points |-> cut_points]
    /\ UNCHANGED download

\* POST /adjust/{session_id}
AdjustCuts(session_id, cut_points) ==
    /\ IF GetSession(session_id) = NoSession
       THEN /\ last' = Failure("adjust_cuts", session_id, 404)
            /\ UNCHANGED sessions
       ELSE IF \E i \in 1..Len(cut_points) : ~ValidDict(cut_points[i])
       THEN /\ last' = Failure("adjust_cuts", session_id, 500)
            /\ UNCHANGED sessions
       ELSE LET adjusted_cuts == [i \in 1..Len(cut_points) |-> CutPointFromDict(cut_points[i])]
            IN  /\ sessions' = [sessions EXCEPT ![session_id] = AdjustUpdate(@, adjusted_cuts)]
                /\ last' = [op |-> "adjust_cuts", ok |-> TRUE, session_id |-> session_id,
                            cut_points |-> cut_points]
    /\ UNCHANGED download

\* process_video raises "Session not found" before download_dir.mkdir
ProcessNotFoundAfterMkdir(session_id) ==
    /\ last' = Failure("process_video", session_id, 404)
    /\ download' = download \cup {LogFile}
    /\ UNCHANGED sessions

ProcessNotFound(session_id) ==
    /\ last' = Failure("process_video", session_id, 404)
    /\ UNCHANGED <<sessions, download>>

\* POST /process -> process_video
ProcessVideo(session_id, cut_points, ffmpeg_available, failing) ==
    IF GetSession(session_id) = NoSession
    THEN ProcessNotFound(session_id)
    ELSE LET session == sessions[session_id]
             created == CreateSegments(session.video_path, cut_points,
                                       ffmpeg_available, failing)
             written == (LogFile :> CreateLogFile(session, cut_points, created.segments))
                            @@ created.written
         IN  /\ download' = download \cup DOMAIN written
             /\ sessions' = [sessions EXCEPT ![session_id] = ProcessUpdate(@, cut_points)]
             /\ last' = [op |-> "process_video", ok |-> TRUE, session_id |-> session_id,
                         cut_points |-> cut_points,
                         ffmpeg_available |-> ffmpeg_available,
                         failing |-> failing,
                         segments |-> created.segments,
                         written |-> written,
                         segments_count |-> Len(cut_points) + 1]

(***************************************************************************)
(* Inputs.                                                                 *)
(***************************************************************************)
SessionIds == {"s1"}
RequestIds == SessionIds \cup {"unknown"}
VideoPaths == {"uploads/a.mp4"}
FrameCounts == {Seconds(10)}
FrameRates == {FPS}
Sensitivities == {Finite(80)}
MinDurations == {-1, 0, 1, ShortSegment, Seconds(1)}
LcMinDurations == {-1, 0, ShortSegment}

\* 0 .. MaxTime ticks, and the 3.0s, 3.05s and 7.0s of the scenarios
Times == (0..MaxTime) \cup {Seconds(3), Seconds(3) + 1, Seconds(7)}
LcTimes == {0, ShortSegment}

SeqsUpTo(S, n) == UNION {[1..k -> S] : k \in 0..n}

Increasing(s) == \A i, j \in 1..Len(s) : i < j => s[i] < s[j]

\* scene lists as SceneManager reports them: start frames strictly increasing
SceneLists(T, n) ==
    {[i \in 1..Len(s) |-> Scene(s[i])] : s \in {q \in SeqsUpTo(T, n) : Increasing(q)}}

Detections(T, n) ==
    {[raises |-> TRUE, scene_list |-> <<>>, frames |-> <<>>]} \cup
    UNION {{[raises |-> FALSE, scene_list |-> sl, frames |-> fr] :
               fr \in [1..Len(sl) -> FrameReads]} : sl \in SceneLists(T, n)}

\* cut points a caller sends: at t ticks, and the scenario's 3.0s and 7.0s
\* cut points with the frame numbers of a 30 fps recording
CallerCutPoints(T) == {CutPoint(t, t, 5, "general_change", 0) : t \in T}

ScenarioCutPoints ==
    {CutPoint(90, Seconds(3), 9, "ui_update", 0), CutPoint(210, Seconds(7), 8, "dialog_open", 0)}

CallerDicts(T) ==
    CallerCutPoints(T) \cup
    {[frame_number |-> 0, timestamp |-> 0, confidence |-> 5,
      change_type |-> "general_change", description |-> 0, label |-> "x"],
     [frame_number |-> 0, confidence |-> 5,
      change_type |-> "general_change", description |-> 0]}

\* a dict with every key of CutPoint and a timestamp below 0, a confidence
\* above 1.0 and a change_type that is no ChangeType
MalformedDict ==
    [frame_number |-> 0, timestamp |-> -1, confidence |-> 11,
     change_type |-> "bogus", description |-> 0]

ProcessRequests(C, n) ==
    UNION {{[cut_points |-> cps, ffmpeg_available |-> FALSE, failing |-> {}]} \cup
           {[cut_points |-> cps, ffmpeg_available |-> TRUE, failing |-> f] :
               f \in SUBSET (1..Len(cps))} : cps \in SeqsUpTo(C, n)}

(***************************************************************************)
(* The service: any request at any time.                                   *)
(***************************************************************************)
Init ==
    /\ sessions = <<>>
    /\ download = {}
    /\ last = [op |-> "none", ok |-> TRUE]
    /\ input = NoInput

\* what the clients of the service send; a request that names no session
\* of the store is answered 404 before its body is looked at, so one body
\* stands for all of them
LcAnalyses ==
    {[sensitivity |-> s, ignore_cursor |-> ic, min_segment_duration |-> m, detection |-> d] :
        s \in Sensitivities, ic \in BOOLEAN, m \in LcMinDurations,
        d \in Detections(LcTimes, LcMaxCuts)}

LcAdjustments == SeqsUpTo(CallerDicts(LcTimes), LcMaxCuts) \cup {<<MalformedDict>>}

LcProcessRequests == ProcessRequests(CallerCutPoints(LcTimes), LcMaxPlan)

Bodies(session_id, S) ==
    IF session_id \in DOMAIN sessions THEN S ELSE {CHOOSE b \in S : TRUE}

Upload ==
    /\ \E session_id \in SessionIds, video_path \in VideoPaths,
          accepted \in BOOLEAN, opened \in BOOLEAN,
          frame_count \in FrameCounts, fps \in FrameRates :
          UploadVideo(session_id, video_path, accepted, opened, frame_count, fps)
    /\ UNCHANGED input

Analyze ==
    /\ \E session_id \in RequestIds :
          \E r \in Bodies(session_id, LcAnalyses) :
              AnalyzeVideo(session_id, r.sensitivity, r.ignore_cursor,
                           r.min_segment_duration, r.detection)
    /\ UNCHANGED input

Adjust ==
    /\ \E session_id \in RequestIds :
          \E cut_points \in Bodies(session_id, LcAdjustments) :
              AdjustCuts(session_id, cut_points)
    /\ UNCHANGED input

Process ==
    /\ \E session_id \in RequestIds :
          \E r \in Bodies(session_id, LcProcessRequests) :
              ProcessVideo(session_id, r.cut_points, r.ffmpeg_available, r.failing)
    /\ UNCHANGED input

Next == Upload \/ Analyze \/ Adjust \/ Process

Spec == Init /\ [][Next]_vars

(***************************************************************************)
(* One analysis of an uploaded video, over every scene list, frame outcome *)
(* and minimum duration of the bounds.                                     *)
(***************************************************************************)
Uploaded ==
    /\ sessions = ("s1" :> VideoSession("s1", "uploads/a.mp4", VideoInfo(Seconds(10), FPS)))
    /\ download = {}
    /\ last = [op |-> "upload_video", ok |-> TRUE, session_id |-> "s1"]

InitDetect ==
    /\ Uploaded
    /\ input \in {[pending |-> TRUE, sensitivity |-> s, ignore_cursor |-> ic,
                   min_segment_duration |-> m, detection |-> d] :
                     s \in Sensitivities, ic \in BOOLEAN, m \in MinDurations,
                     d \in Detections(Times, MaxScenes)}

DetectOnce ==
    /\ input.pending
    /\ AnalyzeVideo("s1", input.sensitivity, input.ignore_cursor,
                    input.min_segment_duration, input.detection)
    /\ input' = NoInput

SpecDetect == InitDetect /\ [][DetectOnce]_vars

(***************************************************************************)
(* One segmentation of an uploaded video, over every caller-supplied cut   *)
(* point list, tool availability and set of failing extractions of the     *)
(* bounds.                                                                 *)
(***************************************************************************)
InitProcess ==
    /\ Uploaded
    /\ input \in {[pending |-> TRUE, request |-> r] :
                     r \in ProcessRequests(CallerCutPoints(0..MaxTime) \cup ScenarioCutPoints,
                                           MaxCuts)}

ProcessOnce ==
    /\ input.pending
    /\ ProcessVideo("s1", input.request.cut_points, input.request.ffmpeg_available,
                    input.request.failing)
    /\ input' = NoInput

SpecProcess == InitProcess /\ [][ProcessOnce]_vars

(***************************************************************************)
(* One analysis of an uploaded video for every sensitivity a request can   *)
(* carry: SensitivityMargin hundredths below 0.0 to as many above 1.0, and *)
(* the floats that are no numbers.  Every product of a hundredth with 24   *)
(* whose exact difference from 27 is an integer is a multiple of 0.25 and  *)
(* exact in binary floating point, so int() truncates where TruncDiv does. *)
(***************************************************************************)
SensitivityMargin == 50

FiniteSensitivities == (0 - SensitivityMargin)..(100 + SensitivityMargin)

AllSensitivities ==
    {Finite(h) : h \in FiniteSensitivities} \cup {NonFinite(k) : k \in {"nan", "inf", "-inf"}}

ReadableScene ==
    [raises |-> FALSE, scene_list |-> <<Scene(Seconds(3))>>,
     frames |-> <<FrameRead(TRUE, Variances(12000, 3000), Variances(500, 100))>>]

InitThreshold ==
    /\ Uploaded
    /\ input \in {[pending |-> TRUE, sensitivity |-> s, ignore_cursor |-> TRUE,
                   min_segment_duration |-> Seconds(1), detection |-> ReadableScene] :
                     s \in AllSensitivities}

SpecThreshold == InitThreshold /\ [][DetectOnce]_vars

(***************************************************************************)
(* One analysis of an uploaded video with one scene, for every variance    *)
(* signature of its frame around the classifier's limits.  The variance of *)
(* an 8-bit grey cell is at most 127.5^2 = 16256.25, and the standard      *)
(* deviation of 9 values between 0 and max_variance is at most             *)
(* sqrt(20)/9 = 0.4969 of max_variance.                                    *)
(***************************************************************************)
VarianceLimits == {1000, 2000, 5000, 10000}

VarianceValues ==
    {0, 3000, 16000} \cup UNION {{b - 1, b, b + 1} : b \in VarianceLimits}

VarianceSignatures ==
    {NoVariances} \cup
    UNION {{Variances(m, d) : d \in {x \in VarianceValues : x * 1000 <= m * 496}} :
              m \in VarianceValues}

InitClassify ==
    /\ Uploaded
    /\ input \in {[pending |-> TRUE, sensitivity |-> Finite(80), ignore_cursor |-> ic,
                   min_segment_duration |-> Seconds(1),
                   detection |-> [raises |-> FALSE, scene_list |-> <<Scene(Seconds(3))>>,
                                  frames |-> <<FrameRead(TRUE, v, v)>>]] :
                     ic \in BOOLEAN, v \in VarianceSignatures}

SpecClassify == InitClassify /\ [][DetectOnce]_vars

(***************************************************************************)
(* Cursor mask (_mask_cursor_region), pixel by pixel: the three techniques *)
(* act on each pixel by its place alone, given the cursor positions that   *)
(* _detect_cursor_positions found in the frame.  A pixel is <<b, g, r>>.   *)
(* InCircle is the filled circle cv2.circle draws, taken as the pixels at  *)
(* most cursor_mask_size away from its centre.                             *)
(***************************************************************************)
cursor_mask_size == 25
edge_mask_width == 50

Gray == <<128, 128, 128>>
Black == <<0, 0, 0>>

InCircle(x, y, pos) ==
    (x - pos[1]) * (x - pos[1]) + (y - pos[2]) * (y - pos[2])
        <= cursor_mask_size * cursor_mask_size

InMask(x, y, cursor_positions) ==
    \E i \in 1..Len(cursor_positions) : InCircle(x, y, cursor_positions[i])

\* rows [:edge_width] and [-edge_width:], columns likewise
InEdge(x, y, width, height) ==
    \/ y < edge_mask_width
    \/ y >= height - edge_mask_width
    \/ x < edge_mask_width
    \/ x >= width - edge_mask_width

\* 128 & c for a channel value c of 0..255: bit 7 of c
BitAnd128(c) == IF c >= 128 THEN 128 ELSE 0

\* cv2.bitwise_and(np.full_like(frame, 128), frame, mask=mask) at a pixel
\* of the mask
GrayAndFrame(pixel) == [k \in 1..3 |-> BitAnd128(pixel[k])]

MaskedPixel(width, height, cursor_positions, x, y, pixel) ==
    LET painted == IF InMask(x, y, cursor_positions) THEN Gray ELSE pixel
        composed == IF Len(cursor_positions) > 0
                    THEN IF InMask(x, y, cursor_positions)
                         THEN GrayAndFrame(pixel)
                         ELSE pixel
                    ELSE painted
    IN  IF edge_mask_width > 0 /\ InEdge(x, y, width, height)
        THEN Black
        ELSE composed

\* _mask_cursor_region on a frame of width x height, looked at in the pixel
\* at (x, y)
MaskCursorRegion(width, height, cursor_positions, x, y, pixel) ==
    /\ last' = [op |-> "mask_cursor_region", ok |-> TRUE,
                width |-> width, height |-> height,
                cursor_positions |-> cursor_positions,
                x |-> x, y |-> y, pixel |-> pixel,
                masked |-> MaskedPixel(width, height, cursor_positions, x, y, pixel)]
    /\ UNCHANGED <<sessions, download>>

(***************************************************************************)
(* One masking of a 300 x 200 frame, for up to MaxBlobs detected blobs and *)
(* a pixel on and next to each border of the edge band and of the circles. *)
(***************************************************************************)
MaxBlobs == 2

FrameSizes == {<<300, 200>>}

BlobCentroids == {<<100, 100>>, <<130, 100>>, <<60, 60>>}

PixelColumns == {0, 49, 50, 74, 75, 100, 125, 126, 155, 156, 249, 250, 299}

PixelRows == {0, 49, 50, 100, 125, 126, 149, 150, 199}

Pixels ==
    {<<0, 0, 0>>, <<100, 100, 100>>, <<128, 128, 128>>, <<255, 255, 255>>,
     <<0, 255, 255>>, <<200, 100, 50>>}

InitMask ==
    /\ Uploaded
    /\ input \in {[pending |-> TRUE, width |-> size[1], height |-> size[2],
                   cursor_positions |-> cp, x |-> x, y |-> y, pixel |-> px] :
                     size \in FrameSizes, cp \in SeqsUpTo(BlobCentroids, MaxBlobs),
                     x \in PixelColumns, y \in PixelRows, px \in Pixels}

MaskOnce ==
    /\ input.pending
    /\ MaskCursorRegion(input.width, input.height, input.cursor_positions,
                        input.x, input.y, input.pixel)
    /\ input' = NoInput

SpecMask == InitMask /\ [][MaskOnce]_vars

(***************************************************************************)
(* Properties.                                                             *)
(***************************************************************************)
Analyzed == last.op = "analyze_video" /\ last.ok
Adjusted == last.op = "adjust_cuts" /\ last.ok
Processed == last.op = "process_video" /\ last.ok

Timestamps(cut_points) == [i \in 1..Len(cut_points) |-> cut_points[i].timestamp]

SortedByTimestamp(cut_points) ==
    \A i, j \in 1..Len(cut_points) :
        i < j => cut_points[i].timestamp <= cut_points[j].timestamp

\* C1: after any sequence of uploads, analyses and manual adjustments every
\* session's cut_points list is ordered by timestamp ascending.
C1_CutPointsSorted ==
    \A sid \in DOMAIN sessions : SortedByTimestamp(sessions[sid].cut_points)

SameCutPoints(stored, supplied) ==
    /\ Len(stored) = Len(supplied)
    /\ \A i \in 1..Len(stored) : \A k \in CutPointKeys : stored[i][k] = supplied[i][k]

\* C2: a session's cut_points change only by full replacement: a successful
\* analysis leaves exactly the list it returned, a successful adjustment
\* exactly the list the caller supplied, and every other request (process_video
\* with whatever list, and every failed request) leaves the list as it was.
C2_FullReplacement ==
    [][\A sid \in DOMAIN sessions' :
          LET new == sessions'[sid].cut_points
              served == last'.session_id = sid /\ last'.ok
          IN  /\ sid \notin DOMAIN sessions => new = <<>>
              /\ (served /\ last'.op = "analyze_video") => new = last'.cut_points
              /\ (served /\ last'.op = "adjust_cuts") => SameCutPoints(new, last'.cut_points)
              /\ (sid \in DOMAIN sessions
                    /\ ~(served /\ last'.op \in {"analyze_video", "adjust_cuts"}))
                 => new = sessions[sid].cut_points]_vars

C2_Witness ==
    /\ Processed
    /\ sessions[last.session_id].cut_points # <<>>
    /\ last.cut_points # <<>>
    /\ last.cut_points # sessions[last.session_id].cut_points

\* C3: the list the post-filter returns is sorted by timestamp and, for
\* min_segment_duration >= 0, each accepted cut point after the first lies at
\* least min_segment_duration after the one accepted before it, also when
\* frames fail to be read.
C3_SortedAndSpaced ==
    (Analyzed /\ last.min_segment_duration >= 0) =>
        /\ SortedByTimestamp(last.cut_points)
        /\ \A j \in 1..(Len(last.cut_points) - 1) :
              last.cut_points[j + 1].timestamp - last.cut_points[j].timestamp
                  >= last.min_segment_duration

C3_Witness ==
    /\ Analyzed
    /\ last.min_segment_duration > 0
    /\ Len(last.cut_points) = 2
    /\ \E k \in 1..Len(last.frames) : ~last.frames[k].ret
    /\ last.cut_points[2].timestamp - last.cut_points[1].timestamp
          = last.min_segment_duration

\* whether scene k of the analysed scene list became a cut point, and the
\* timestamp of the cut point accepted last before scene k (0 when none)
Kept(k) == \E j \in 1..Len(last.cut_points) : last.cut_points[j].description = k

Reference(k) ==
    LET before == {j \in 1..Len(last.cut_points) : last.cut_points[j].description < k}
    IN  IF before = {} THEN 0
        ELSE last.cut_points[CHOOSE j \in before : \A m \in before : m <= j].timestamp

Gap(k) == last.scene_list[k].seconds - Reference(k)

ScenarioCandidates ==
    /\ Timestamps([i \in 1..Len(last.scene_list) |->
                     [timestamp |-> last.scene_list[i].seconds]])
          = <<Seconds(3), Seconds(3) + 1>>
    /\ last.min_segment_duration = Seconds(1)

C5_FirstSceneNotEmitted ==
    Analyzed => \A j \in 1..Len(last.cut_points) : last.cut_points[j].description # 1

Ranges(segments) ==
    [j \in 1..Len(segments) |-> <<segments[j].start_time, segments[j].end_time>>]

\* C6: for a 10.0s video and cut points at 3.0s and 7.0s the planned ranges
\* are (0,3.0), (3.0,7.0), (7.0,10.0).
C6_ScenarioRanges ==
    (/\ Processed
     /\ last.ffmpeg_available
     /\ last.failing = {}
     /\ sessions[last.session_id].video_info.duration = Seconds(10)
     /\ Timestamps(last.cut_points) = <<Seconds(3), Seconds(7)>>)
    => Ranges(last.segments) =
          << <<0, Seconds(3)>>, <<Seconds(3), Seconds(7)>>, <<Seconds(7), Seconds(10)>> >>

Overlap(a, b) == a.start_time < b.end_time /\ b.start_time < a.end_time

\* C7: no two segments that process_video created overlap in time, whatever
\* cut-point list the caller supplied.
C7_NoOverlap ==
    Processed =>
        \A i, j \in 1..Len(last.segments) :
            (i < j /\ last.segments[i].extra = "none" /\ last.segments[j].extra = "none")
                => ~Overlap(last.segments[i], last.segments[j])

\* C8: without the stream-copy tool no .mp4 segment is written, nothing is
\* extracted, and the one artifact ffmpeg_not_available.txt lists the
\* timestamp (to two decimals) and the frame number of every cut point given.
C8_DegradedMode ==
    (Processed /\ ~last.ffmpeg_available) =>
        /\ \A f \in DOMAIN last.written : ~IsSegmentFile(f)
        /\ DOMAIN last.written \ {LogFile} = {NoteFile}
        /\ Len(last.segments) = 1
        /\ last.segments[1].filename = NoteFile
        /\ Len(last.written[NoteFile]) = Len(last.cut_points)
        /\ \A i \in 1..Len(last.cut_points) :
              /\ last.written[NoteFile][i][1] = i
              /\ last.written[NoteFile][i][2] * FPS = last.cut_points[i].timestamp * 100
              /\ last.written[NoteFile][i][3] = last.cut_points[i].frame_number

C8_Witness ==
    /\ Processed
    /\ ~last.ffmpeg_available
    /\ Len(last.cut_points) >= 2
    /\ \E i \in 1..Len(last.cut_points) :
          last.cut_points[i].frame_number # last.cut_points[i].timestamp

\* the planned range at position i of the loop, and the positions whose range
\* is not dropped for being shorter than 0.1s
RangeStart(i) == IF i = 1 THEN 0 ELSE last.cut_points[i - 1].timestamp
RangeEnd(i) == last.cut_points[i].timestamp
Surviving == {i \in 1..Len(last.cut_points) : RangeEnd(i) - RangeStart(i) >= ShortSegment}

\* C9: whatever subset of the extractions fails, every surviving planned range
\* has exactly one entry in the segment list, an error entry exactly when its
\* extraction failed, and the entries are in index order.
C9_OneEntryPerRange ==
    (Processed /\ last.ffmpeg_available) =>
        /\ Len(last.segments) = Cardinality(Surviving)
        /\ \A j, k \in 1..Len(last.segments) :
              j < k => last.segments[j].filename[2] < last.segments[k].filename[2]
        /\ \A i \in Surviving :
              \E j \in 1..Len(last.segments) :
                  /\ last.segments[j].filename =
                        (IF i \in last.failing THEN SegmentErrorFile(i) ELSE SegmentFile(i))
                  /\ last.segments[j].extra = (IF i \in last.failing THEN "error" ELSE "none")
                  /\ last.segments[j].start_time = RangeStart(i)
                  /\ last.segments[j].end_time = RangeEnd(i)

\* an extraction fails and a later range is still extracted
C9_Witness ==
    /\ Processed
    /\ last.ffmpeg_available
    /\ \E i \in Surviving \cap last.failing :
          \E k \in Surviving \ last.failing : i < k /\ SegmentFile(k) \in DOMAIN last.written

\* C10: segments_count in the response is the number of video segments the
\* call created (0 in degraded mode).
C10_SegmentsCount ==
    Processed =>
        last.segments_count =
            Cardinality({j \in 1..Len(last.segments) : last.segments[j].extra = "none"})

\* C11: analyze and process requests that name a session the store does not
\* hold are answered with an error and change nothing: no session is created
\* or modified and no file is written.
C11_NotFoundChangesNothing ==
    [][(/\ last' # last
        /\ last'.op \in {"analyze_video", "process_video"}
        /\ last'.session_id \notin DOMAIN sessions)
       => (/\ ~last'.ok
           /\ last'.status_code = 404
           /\ sessions' = sessions
           /\ download' = download)]_vars

\* a process request for an unknown session, answered while the store holds
\* an analysed session and the download directory holds files
C11_Witness ==
    /\ last.op = "process_video"
    /\ ~last.ok
    /\ last.session_id \notin DOMAIN sessions
    /\ \E sid \in DOMAIN sessions : sessions[sid].cut_points # <<>>
    /\ download # {}

\* C12: a request with an out-of-range parameter (a negative
\* min_segment_duration) or a malformed cut-point list (a negative timestamp,
\* timestamps out of order, a confidence outside [0, 1], a change_type that
\* is not a ChangeType) is rejected: analyze, adjust and process never go
\* through, and so never change a session or write a file, for such input.
WellFormedCutPoints(cut_points) ==
    /\ \A i \in 1..Len(cut_points) :
          /\ cut_points[i].timestamp >= 0
          /\ cut_points[i].confidence \in 0..10
          /\ cut_points[i].change_type \in ChangeTypes
    /\ SortedByTimestamp(cut_points)

C12_MalformedRejected ==
    /\ Analyzed => last.min_segment_duration >= 0
    /\ Adjusted => WellFormedCutPoints(last.cut_points)
    /\ Processed => WellFormedCutPoints(last.cut_points)

\* C13: a failure during analysis gives a raised error or a recorded entry:
\* when the analysis returns without an error, every scene whose frame the
\* post-filter tried to read and could not read has an entry in the result.
C13_UnreadableLeavesTrace ==
    (Analyzed /\ last.min_segment_duration >= 0) =>
        \A k \in 1..Len(last.scene_list) :
            (~last.frames[k].ret /\ (k = 1 \/ Gap(k) >= last.min_segment_duration))
                => Kept(k)

\* C14: a decode failure leaves no partial result: an upload whose video
\* cannot be opened fails and adds no session, and an analysis whose scene
\* detection raises leaves every session, cut_points and status included, as
\* it was.
DecodeFailed ==
    /\ last' # last
    /\ ~last'.ok
    /\ last'.status_code = 500
    /\ last'.op \in {"upload_video", "analyze_video"}

C14_DecodeFailureChangesNothing ==
    [][DecodeFailed => sessions' = sessions]_vars

\* a failed analysis of a session that holds cut points of an earlier one
C14_Witness ==
    /\ last.op = "analyze_video"
    /\ ~last.ok
    /\ last.status_code = 500
    /\ last.session_id \in DOMAIN sessions
    /\ sessions[last.session_id].cut_points # <<>>
    /\ sessions[last.session_id].status = "processed"

\* C15: a session's status is always uploaded, analyzed or processed; it is
\* uploaded when the session is created, becomes analyzed only in a
\* successful analysis of that session, and becomes processed only in a
\* successful process_video of that session, whose segment files and report
\* are written by then.
StatusBefore(sid) == GetSession(sid).status

C15_StatusLifecycle ==
    [][\A sid \in DOMAIN sessions' :
          /\ sessions'[sid].status \in {"uploaded", "analyzed", "processed"}
          /\ StatusBefore(sid) = "absent" =>
                /\ sessions'[sid].status = "uploaded"
                /\ last'.op = "upload_video" /\ last'.ok /\ last'.session_id = sid
          /\ (sessions'[sid].status = "analyzed" /\ StatusBefore(sid) # "analyzed") =>
                last'.op = "analyze_video" /\ last'.ok /\ last'.session_id = sid
          /\ (sessions'[sid].status = "processed" /\ StatusBefore(sid) # "processed") =>
                /\ last'.op = "process_video" /\ last'.ok /\ last'.session_id = sid
                /\ LogFile \in DOMAIN last'.written
                /\ DOMAIN last'.written \subseteq download']_vars

\* a processed session, right after the call that processed it
C15_Witness ==
    /\ Processed
    /\ sessions[last.session_id].status = "processed"
    /\ \E f \in download : IsSegmentFile(f)
    /\ LogFile \in download

\* C16: the threshold derived from the sensitivity is within
\* [content_detector_threshold_min, content_detector_threshold_max] and does
\* not rise with the sensitivity: a lower sensitivity never gives a lower
\* threshold, a higher one never a higher threshold.
C16_ThresholdMonotonicBounded ==
    Analyzed =>
        /\ last.threshold \in content_detector_threshold_min..content_detector_threshold_max
        /\ \A s \in FiniteSensitivities :
              /\ s < last.sensitivity => Threshold(s) >= last.threshold
              /\ s > last.sensitivity => Threshold(s) <= last.threshold

\* an analysis with a threshold strictly inside the bounds, lower than the
\* threshold of a lower sensitivity and higher than that of a higher one
C16_Witness ==
    /\ Analyzed
    /\ last.threshold > content_detector_threshold_min
    /\ last.threshold < content_detector_threshold_max
    /\ \E s1, s2 \in FiniteSensitivities :
          /\ s1 < last.sensitivity /\ last.sensitivity < s2
          /\ Threshold(s1) > last.threshold /\ last.threshold > Threshold(s2)

\* C17: no sensitivity makes the analysis fail; every sensitivity of 0.0 or
\* less gives content_detector_threshold_max, every sensitivity of 1.0 or
\* more gives content_detector_threshold_min, and every threshold is within
\* the two.
C17_SensitivityClamped ==
    last.op = "analyze_video" =>
        /\ last.ok
        /\ last.threshold \in content_detector_threshold_min..content_detector_threshold_max
        /\ last.sensitivity <= 0 => last.threshold = content_detector_threshold_max
        /\ last.sensitivity >= 100 => last.threshold = content_detector_threshold_min

\* C18: the classifier gives unknown 0.5 for an empty variance set,
\* button_click 0.7 for max_variance < 1000, else dialog_open 0.8 for
\* max_variance < 5000 with variance_std < 1000, else ui_update 0.9 for
\* max_variance > 10000, else form_input 0.6 for variance_std > 2000, and
\* general_change 0.5 for everything else.
ClassifiedFrame == IF last.ignore_cursor THEN last.frames[1].masked ELSE last.frames[1].raw

ClassifiedAs(change_type, confidence) ==
    /\ last.cut_points[1].change_type = change_type
    /\ last.cut_points[1].confidence = confidence

C18_ClassifierChain ==
    (Analyzed /\ Len(last.cut_points) = 1) =>
        LET v == ClassifiedFrame
            small == v.max_variance < 1000
            dialog == v.max_variance >= 1000 /\ v.max_variance < 5000 /\ v.variance_std < 1000
            large == v.max_variance > 10000
            spread == ~small /\ ~dialog /\ ~large /\ v.variance_std > 2000
        IN  /\ v.empty => ClassifiedAs("unknown", 5)
            /\ (~v.empty /\ small) => ClassifiedAs("button_click", 7)
            /\ (~v.empty /\ dialog) => ClassifiedAs("dialog_open", 8)
            /\ (~v.empty /\ large) => ClassifiedAs("ui_update", 9)
            /\ (~v.empty /\ spread) => ClassifiedAs("form_input", 6)
            /\ (~v.empty /\ ~small /\ ~dialog /\ ~large /\ ~spread)
                  => ClassifiedAs("general_change", 5)

\* a frame that meets both the third and the fourth rule's condition
C18_Witness ==
    /\ Analyzed
    /\ Len(last.cut_points) = 1
    /\ ~ClassifiedFrame.empty
    /\ ClassifiedFrame.max_variance > 10000
    /\ ClassifiedFrame.variance_std > 2000
    /\ ClassifiedAs("ui_update", 9)

\* C19: the segment files written are exactly segment_{i}.mp4 for the
\* positions i of the planning loop whose range survived and was extracted,
\* each holding the range of its own position: a dropped range leaves a gap
\* in the numbers and no later segment is renumbered.
C19_NamedByLoopPosition ==
    (Processed /\ last.ffmpeg_available) =>
        /\ {f \in DOMAIN last.written : IsSegmentFile(f)}
              = {SegmentFile(i) : i \in Surviving \ last.failing}
        /\ \A i \in Surviving \ last.failing :
              /\ last.written[SegmentFile(i)].ss = RangeStart(i)
              /\ last.written[SegmentFile(i)].t = RangeEnd(i) - RangeStart(i)

\* segment 1 and segment 3 written, range 2 dropped for being too short
C19_Witness ==
    /\ Processed
    /\ last.ffmpeg_available
    /\ Len(last.cut_points) = 3
    /\ 2 \notin Surviving
    /\ last.failing = {}
    /\ {f \in DOMAIN last.written : IsSegmentFile(f)} = {SegmentFile(1), SegmentFile(3)}

\* C20: the settings of the report that process_video writes are the
\* ignore_cursor and min_segment_duration of the analysis that produced the
\* session's cut points; stated for a process_video that directly follows
\* that analysis.
C20_SettingsReflectAnalysis ==
    [][(/\ Analyzed
        /\ last.min_segment_duration >= 0
        /\ last'.op = "process_video"
        /\ last'.ok
        /\ last'.session_id = last.session_id)
       => last'.written[LogFile].settings =
              [cursor_masking |-> last.ignore_cursor,
               min_segment_duration |-> last.min_segment_duration]]_vars

\* C21 as stated: with the bounds 3 and 27, sensitivity 0.8 gives the
\* threshold 8.
C21_ThresholdEight ==
    (Analyzed /\ last.sensitivity = 80) => last.threshold = 8

\* C21 amended: with the bounds 3 and 27, sensitivity 0.8 gives the
\* threshold 7: int() cuts the fraction of 27 - 0.8 * 24 = 7.8 off.
C21_ThresholdSeven ==
    /\ content_detector_threshold_min = 3
    /\ content_detector_threshold_max = 27
    /\ (Analyzed /\ last.sensitivity = 80) => last.threshold = 7

\* an analysis with sensitivity 0.8
C21_Witness ==
    /\ Analyzed
    /\ last.sensitivity = 80
    /\ sessions[last.session_id].status = "analyzed"

Matching(v) == {r \in 1..4 : RuleCondition(r, v)}

\* C22 as stated: no variance signature meets the condition of more than
\* one of the rules button_click, dialog_open, ui_update, form_input.
C22_RulesExclusive ==
    (Analyzed /\ Len(last.cut_points) = 1 /\ ~ClassifiedFrame.empty) =>
        Cardinality(Matching(ClassifiedFrame)) <= 1

RuleResult(r) ==
    CASE r = 1 -> <<"button_click", 7>>
      [] r = 2 -> <<"dialog_open", 8>>
      [] r = 3 -> <<"ui_update", 9>>
      [] r = 4 -> <<"form_input", 6>>

\* C22 amended: the conditions overlap, button_click with dialog_open and
\* ui_update with form_input and no other two; the result is that of the
\* matching rule that comes first in the order button_click, dialog_open,
\* ui_update, form_input, and general_change when none matches.
C22_FirstMatchDecides ==
    (Analyzed /\ Len(last.cut_points) = 1 /\ ~ClassifiedFrame.empty) =>
        LET matching == Matching(ClassifiedFrame)
        IN  /\ matching \in {{}, {1}, {2}, {3}, {4}, {1, 2}, {3, 4}}
            /\ matching = {} => ClassifiedAs("general_change", 5)
            /\ matching # {} =>
                  LET first == CHOOSE r \in matching : \A q \in matching : r <= q
                  IN  ClassifiedAs(RuleResult(first)[1], RuleResult(first)[2])

\* a frame that meets the conditions of ui_update and of form_input and is
\* classified ui_update, where the opposite order would give form_input
C22_Witness ==
    /\ Analyzed
    /\ Len(last.cut_points) = 1
    /\ ~ClassifiedFrame.empty
    /\ Matching(ClassifiedFrame) = {3, 4}
    /\ ClassifiedAs("ui_update", 9)

\* the position in the planning loop of entry j of the segment list
Position(j) == last.segments[j].filename[2]

C24_PositiveAndContiguous ==
    (Processed /\ last.ffmpeg_available) =>
        /\ \A j \in 1..Len(last.segments) :
              last.segments[j].end_time > last.segments[j].start_time
        /\ \A j, k \in 1..Len(last.segments) :
              Position(k) = Position(j) + 1 =>
                  last.segments[j].end_time = last.segments[k].start_time

\* a list out of order: the range that runs backwards has no entry, the
\* ranges before and after it have
C24_Witness ==
    /\ Processed
    /\ last.ffmpeg_available
    /\ \E i \in 2..(Len(last.cut_points) - 1) :
          /\ RangeEnd(i) < RangeStart(i)
          /\ \E j, k \in 1..Len(last.segments) :
                Position(j) = i - 1 /\ Position(k) = i + 1

\* C25: in the masked frame every pixel of the edge band is black, every
\* pixel outside the edge band and within a circle around a detected blob
\* is gray (128, 128, 128) whatever it was, and every other pixel is the
\* source pixel.
C25_MaskedPixels ==
    last.op = "mask_cursor_region" =>
        LET edge == InEdge(last.x, last.y, last.width, last.height)
            disc == InMask(last.x, last.y, last.cursor_positions)
        IN  /\ edge => last.masked = Black
            /\ (~edge /\ disc) => last.masked = Gray
            /\ (~edge /\ ~disc) => last.masked = last.pixel

\* C26: after a successful process_video the segment files in the download
\* directory are exactly the segment files that call wrote: none is left
\* from an earlier call.
C26_OnlyThisCallsSegments ==
    Processed =>
        {f \in download : IsSegmentFile(f)}
            = {f \in DOMAIN last.written : IsSegmentFile(f)}

====
